---- MODULE Spec2Model ----
(***************************************************************************)
(* Model of the document pipeline of src/lib/translation.ts: the text      *)
(* chunker (chunkText), the translation adapter (translateText) and the    *)
(* orchestrator (processPDFDocument).                                      *)
(*                                                                         *)
(* A JavaScript string is modelled run-length encoded: a sequence of runs  *)
(* [ch |-> c, n |-> k] standing for k copies of the character c, in        *)
(* canonical form (adjacent runs carry different characters).  This keeps  *)
(* the 25,000-character limit of the translation service at its real value *)
(* while the texts stay enumerable.                                        *)
(***************************************************************************)
EXTENDS Integers, Sequences, FiniteSets, TLC

VARIABLES
  text,      \* the text handed to chunkText or to translateText
  maxSize,   \* chunkText's maxSize argument
  chunks,    \* what chunkText returned
  cpc,       \* where the caller of chunkText / translateText stands
  tt,        \* the translateText invocations made so far, by name
  pc,              \* the stage of the processPDFDocument run
  targetLanguage,  \* the language key the caller passed
  fullText,        \* what extractTextFromPDF returned
  llm,             \* what generateSummaryAndActions returned
  result,          \* what the promise of processPDFDocument settled to
  extractCalls,    \* invocations of extractTextFromPDF
  genCalls,        \* invocations of generateSummaryAndActions
  pdf,             \* what reading and parsing the PDF came to
  gen,             \* what the call of the generative model came to
  handler,         \* which POST handler serves the upload
  request,         \* the form fields of the upload
  hpc,             \* where the POST handler stands
  tempFilePath,    \* the handler's tempFilePath variable
  tempFile,        \* whether the temp file exists on disk
  processCalls,    \* invocations of processPDFDocument by the handler
  processResult,   \* what that invocation settled to
  response,        \* the response the handler returned
  unlinks,         \* the handler's calls of unlink, and those that failed
  legacyText,      \* the text handed to the legacy detectDocumentType
  docTypes,        \* what the calls of detectDocumentType returned, in order
  selectedLanguage,  \* the upload page's selectedLanguage state
  pageFile,          \* its file state
  loading,           \* its loading state
  pageResult,        \* its result state
  pageError,         \* its error state
  fetching           \* the request of handleSubmit in flight

pipeVars == <<pc, targetLanguage, fullText, llm, result, extractCalls,
              genCalls, pdf, gen>>

postVars == <<handler, request, hpc, tempFilePath, tempFile, processCalls,
              processResult, response, unlinks>>

legacyVars == <<legacyText, docTypes>>

pageVars == <<selectedLanguage, pageFile, loading, pageResult, pageError,
              fetching>>

vars == <<text, maxSize, chunks, cpc, tt, pipeVars, postVars, legacyVars,
          pageVars>>

\* src/lib/translation.ts:71
MAX_TRANSLATE_CHUNK == 25000

(***************************************************************************)
(* Bounds of the model                                                     *)
(***************************************************************************)
\* longest text handed to chunkText, counted in runs
MaxRuns == 5

\* longest text handed to translateText on its own, counted in runs
MaxTranslateRuns == 3

\* characters a text is made of: a letter, white space, a sentence terminator
Alphabet == {"a", " ", "."}

\* lengths a run may have
RunLens == {1, MAX_TRANSLATE_CHUNK - 1, 2 * MAX_TRANSLATE_CHUNK + 1}

\* values of chunkText's maxSize parameter
MaxSizes == {1, 2, MAX_TRANSLATE_CHUNK}

Runs == [ch : Alphabet, n : RunLens]

Canonical(t) == \A i \in 1..(Len(t) - 1) : t[i].ch # t[i + 1].ch

Texts == UNION {{t \in [1..k -> Runs] : Canonical(t)} : k \in 0..MaxRuns}

(***************************************************************************)
(* String primitives                                                       *)
(***************************************************************************)
\* the characters of the class [.!?] of the sentence pattern
IsTerminator(c) == c \in {".", "!", "?"}

\* white space as String.prototype.trim sees it
IsSpace(c) == c = " "

\* String.prototype.length
RECURSIVE Length(_)
Length(t) == IF t = <<>> THEN 0 ELSE Head(t).n + Length(Tail(t))

\* a + b on strings
Concat(s, t) ==
  IF s = <<>> THEN t
  ELSE IF t = <<>> THEN s
  ELSE IF s[Len(s)].ch = t[1].ch
       THEN SubSeq(s, 1, Len(s) - 1)
              \o <<[ch |-> t[1].ch, n |-> s[Len(s)].n + t[1].n]>>
              \o Tail(t)
       ELSE s \o t

\* s.substring(0, k)
RECURSIVE Take(_, _)
Take(t, k) ==
  IF k <= 0 \/ t = <<>> THEN <<>>
  ELSE IF Head(t).n <= k
       THEN <<Head(t)>> \o Take(Tail(t), k - Head(t).n)
       ELSE <<[ch |-> Head(t).ch, n |-> k]>>

\* s.substring(k)
RECURSIVE Drop(_, _)
Drop(t, k) ==
  IF t = <<>> THEN <<>>
  ELSE IF k <= 0 THEN t
  ELSE IF Head(t).n <= k
       THEN Drop(Tail(t), k - Head(t).n)
       ELSE <<[ch |-> Head(t).ch, n |-> Head(t).n - k]>> \o Tail(t)

RECURSIVE TrimStart(_)
TrimStart(t) ==
  IF t = <<>> THEN <<>>
  ELSE IF IsSpace(Head(t).ch) THEN TrimStart(Tail(t)) ELSE t

RECURSIVE TrimEnd(_)
TrimEnd(t) ==
  IF t = <<>> THEN <<>>
  ELSE IF IsSpace(t[Len(t)].ch) THEN TrimEnd(SubSeq(t, 1, Len(t) - 1)) ELSE t

\* String.prototype.trim
Trim(t) == TrimEnd(TrimStart(t))

\* parts.join(' ')
RECURSIVE Join(_)
Join(parts) ==
  IF parts = <<>> THEN <<>>
  ELSE IF Len(parts) = 1 THEN parts[1]
  ELSE Concat(Concat(parts[1], <<[ch |-> " ", n |-> 1]>>), Join(Tail(parts)))

(***************************************************************************)
(* chunkText                                                               *)
(***************************************************************************)
\* number of leading runs of t made of terminators
LeadTerm(t) ==
  CHOOSE k \in 0..Len(t) :
    /\ \A i \in 1..k : IsTerminator(t[i].ch)
    /\ (k < Len(t) => ~IsTerminator(t[k + 1].ch))

\* number of leading runs of t made of non-terminators
LeadNonTerm(t) ==
  CHOOSE k \in 0..Len(t) :
    /\ \A i \in 1..k : ~IsTerminator(t[i].ch)
    /\ (k < Len(t) => IsTerminator(t[k + 1].ch))

\* text.match(/[^.!?]+[.!?]+/g): the successive matches, <<>> for null.
\* A match needs one non-terminator at least, then one terminator at least:
\* terminators that open the text are skipped, and what follows the last
\* terminator matches nothing.
RECURSIVE Match(_)
Match(t) ==
  LET r == SubSeq(t, LeadTerm(t) + 1, Len(t))
      j == LeadNonTerm(r)
      k == LeadTerm(SubSeq(r, j + 1, Len(r)))
  IN  IF j = 0 \/ k = 0 THEN <<>>
      ELSE <<SubSeq(r, 1, j + k)>> \o Match(SubSeq(r, j + k + 1, Len(r)))

\* text.match(...) || [text]
Sentences(t) == IF Match(t) = <<>> THEN <<t>> ELSE Match(t)

\* ChunkLoop with the size test made on the sentence alone, not on the
\* buffer with the sentence appended
RECURSIVE ChunkLoopSentenceOnly(_, _, _, _)
ChunkLoopSentenceOnly(sentences, acc, current, max) ==
  IF sentences = <<>>
  THEN IF Trim(current) # <<>> THEN Append(acc, Trim(current)) ELSE acc
  ELSE LET sentence == Head(sentences) IN
       IF Length(sentence) > max
       THEN IF current # <<>>
            THEN ChunkLoopSentenceOnly(Tail(sentences),
                                       Append(acc, Trim(current)), sentence, max)
            ELSE ChunkLoopSentenceOnly(Tail(sentences),
                                       Append(acc, Take(sentence, max)),
                                       Drop(sentence, max), max)
       ELSE ChunkLoopSentenceOnly(Tail(sentences), acc,
                                  Concat(current, sentence), max)

\* ChunkLoop pushing what is left in the buffer without testing that it
\* trims to something
RECURSIVE ChunkLoopAlwaysFlush(_, _, _, _)
ChunkLoopAlwaysFlush(sentences, acc, current, max) ==
  IF sentences = <<>>
  THEN Append(acc, Trim(current))
  ELSE LET sentence == Head(sentences) IN
       IF Length(Concat(current, sentence)) > max
       THEN IF current # <<>>
            THEN ChunkLoopAlwaysFlush(Tail(sentences),
                                      Append(acc, Trim(current)), sentence, max)
            ELSE ChunkLoopAlwaysFlush(Tail(sentences),
                                      Append(acc, Take(sentence, max)),
                                      Drop(sentence, max), max)
       ELSE ChunkLoopAlwaysFlush(Tail(sentences), acc,
                                 Concat(current, sentence), max)

\* ChunkLoop cutting at the size boundary whenever the buffer with the
\* sentence appended passes maxSize, buffer empty or not
RECURSIVE ChunkLoopGreedy(_, _, _, _)
ChunkLoopGreedy(sentences, acc, current, max) ==
  IF sentences = <<>>
  THEN IF Trim(current) # <<>> THEN Append(acc, Trim(current)) ELSE acc
  ELSE LET sentence == Head(sentences) IN
       IF Length(Concat(current, sentence)) > max
       THEN ChunkLoopGreedy(Tail(sentences),
                            Append(acc, Take(Concat(current, sentence), max)),
                            Drop(Concat(current, sentence), max), max)
       ELSE ChunkLoopGreedy(Tail(sentences), acc,
                            Concat(current, sentence), max)

\* the for loop of chunkText and the flush that follows it
RECURSIVE ChunkLoop(_, _, _, _)
ChunkLoop(sentences, acc, current, max) ==
  IF sentences = <<>>
  THEN IF Trim(current) # <<>> THEN Append(acc, Trim(current)) ELSE acc
  ELSE LET sentence == Head(sentences) IN
       IF Length(Concat(current, sentence)) > max
       THEN IF current # <<>>
            THEN ChunkLoop(Tail(sentences), Append(acc, Trim(current)),
                           sentence, max)
            ELSE ChunkLoop(Tail(sentences), Append(acc, Take(sentence, max)),
                           Drop(sentence, max), max)
       ELSE ChunkLoop(Tail(sentences), acc, Concat(current, sentence), max)

chunkText(t, max) == ChunkLoop(Sentences(t), <<>>, <<>>, max)

(***************************************************************************)
(* Results of processPDFDocument                                           *)
(***************************************************************************)
\* no result yet
NoResult ==
  [kind |-> "none", success |-> FALSE, error |-> "", translatedSummary |-> <<>>,
   actionPlan |-> <<>>, targetLanguage |-> "", summaryLength |-> 0,
   originalLength |-> 0, timestamp |-> ""]

\* no parsed generator output yet
NoParsed ==
  [isObject |-> FALSE, summary |-> [type |-> "undefined", str |-> <<>>],
   planIsArray |-> FALSE, actionPlan |-> <<>>]

\* extraction or generation has not settled yet
NoOutcome == [kind |-> "none"]

\* no processPDFDocument run is under way
PipelineIdle ==
  /\ pc = "idle"
  /\ targetLanguage = ""
  /\ fullText = <<>>
  /\ llm = NoParsed
  /\ result = NoResult
  /\ extractCalls = 0
  /\ genCalls = 0
  /\ pdf = NoOutcome
  /\ gen = NoOutcome

\* useState<File | null>(null), and no request in flight
NoFile == [kind |-> "absent", name |-> "", type |-> "", size |-> 0]

\* useState<ProcessingResult | null>(null)
NoPageResult == [success |-> FALSE, targetLanguage |-> ""]

NoFetch == [active |-> FALSE, language |-> ""]

\* the upload page as it is first rendered
PageIdle ==
  /\ selectedLanguage = ""
  /\ pageFile = NoFile
  /\ loading = FALSE
  /\ pageResult = NoPageResult
  /\ pageError = ""
  /\ fetching = NoFetch

\* the legacy classifier has not been called
LegacyIdle ==
  /\ legacyText = <<>>
  /\ docTypes = <<>>

\* no form has been posted
NoRequest ==
  [file |-> [kind |-> "absent", name |-> "", type |-> "", size |-> 0],
   language |-> [present |-> FALSE, value |-> ""]]

\* processPDFDocument has not settled, or was not invoked
NoProcess == [kind |-> "none", success |-> FALSE]

\* the handler has not answered
NoResponse == [status |-> 0, success |-> FALSE]

\* unlink has not been called
NoUnlinks == [calls |-> 0, failed |-> 0]

\* no POST handler is serving a request
PostIdle ==
  /\ handler = "none"
  /\ request = NoRequest
  /\ hpc = "idle"
  /\ tempFilePath = "null"
  /\ tempFile = FALSE
  /\ processCalls = 0
  /\ processResult = NoProcess
  /\ response = NoResponse
  /\ unlinks = NoUnlinks

(***************************************************************************)
(* The chunker on its own: one call of chunkText(text, maxSize)            *)
(***************************************************************************)
ChunkInit ==
  /\ text \in Texts
  /\ maxSize \in MaxSizes
  /\ chunks = <<>>
  /\ cpc = "call"
  /\ tt = <<>>
  /\ PostIdle
  /\ LegacyIdle
  /\ PageIdle
  /\ PipelineIdle

CallChunkText ==
  /\ cpc = "call"
  /\ chunks' = chunkText(text, maxSize)
  /\ cpc' = "done"
  /\ UNCHANGED <<pageVars, legacyVars, postVars, text, maxSize, tt, pipeVars>>

ChunkNext == CallChunkText

ChunkSpec == ChunkInit /\ [][ChunkNext]_vars

(***************************************************************************)
(* JavaScript values and thrown values                                     *)
(***************************************************************************)
Str(t) == [type |-> "string", str |-> t]
Undefined == [type |-> "undefined", str |-> <<>>]
Null == [type |-> "null", str |-> <<>>]
\* a number other than 0 and NaN
Num == [type |-> "number", str |-> <<>>]

\* !v is false
Truthy(v) == v.type = "number" \/ (v.type = "string" /\ v.str # <<>>)

\* new Error(m), and the errors the runtime raises itself
Err(m) == [type |-> "Error", message |-> m]
TypeErr == Err("TypeError")
NoThrown == [type |-> "none", message |-> ""]

\* what a library or a remote service may reject with: an Error with or
\* without a message, a bare string, null, undefined
LibraryThrows ==
  {Err("library failure"), Err(""),
   [type |-> "string", message |-> ""],
   [type |-> "null", message |-> ""],
   [type |-> "undefined", message |-> ""]}

\* the state of a promise
Pending == [kind |-> "pending", value |-> <<>>, thrown |-> NoThrown]
Resolved(t) == [kind |-> "resolved", value |-> t, thrown |-> NoThrown]
Rejected(e) == [kind |-> "rejected", value |-> <<>>, thrown |-> e]

(***************************************************************************)
(* translateText                                                           *)
(***************************************************************************)
\* texts the translation service answers with
TranslatedTexts == {<<[ch |-> "x", n |-> 1]>>, <<[ch |-> "y", n |-> 1]>>}

\* the ways translationClient.translateText may settle: it rejects, it
\* answers without translations, or translations[0].translatedText is
\* undefined, null or a string
RemoteAnswers ==
  [kind : {"reject"}, thrown : LibraryThrows, translatedText : {Undefined}]
    \cup [kind : {"noTranslations"}, thrown : {NoThrown},
          translatedText : {Undefined}]
    \cup [kind : {"translations"}, thrown : {NoThrown},
          translatedText : {Undefined, Null, Str(<<>>)}
                             \cup {Str(t) : t \in TranslatedTexts}]

\* translate without its test of an empty translatedText
translateUnchecked(answer) ==
  IF answer.kind = "reject" THEN Rejected(answer.thrown)
  ELSE IF answer.kind = "noTranslations" THEN Rejected(TypeErr)
  ELSE Resolved(answer.translatedText.str)

\* the answers the translation service gives within a processPDFDocument
\* run: it rejects with an Error or with null, or it brings a translation
PipelineAnswers ==
  {a \in RemoteAnswers :
     \/ /\ a.kind = "reject"
        /\ a.thrown \in {Err("library failure"),
                          [type |-> "null", message |-> ""]}
     \/ /\ a.kind = "translations"
        /\ Truthy(a.translatedText)}

\* the closure translate of translateText, from the moment the remote call
\* settles: the promise it returns
translate(answer) ==
  IF answer.kind = "reject" THEN Rejected(answer.thrown)
  ELSE IF answer.kind = "noTranslations" THEN Rejected(TypeErr)
  ELSE IF ~Truthy(answer.translatedText)
       THEN Rejected(Err("Translation API returned empty result"))
       ELSE Resolved(answer.translatedText.str)

\* the remote calls a fresh invocation holds, one per content, all pending
IssueCalls(contents) ==
  [i \in 1..Len(contents) |->
     [content |-> contents[i], state |-> "pending", value |-> <<>>]]

\* translateText issuing a single call with the whole text, whatever its
\* length
translateTextUnchunked(v, targetLangCode) ==
  IF v.type # "string"
  THEN [arg |-> v, target |-> targetLangCode, calls |-> <<>>,
        outcome |-> Rejected(TypeErr)]
  ELSE [arg |-> v, target |-> targetLangCode,
        calls |-> IssueCalls(<<v.str>>), outcome |-> Pending]

\* translateText(v, targetLangCode) up to its first await: the remote calls
\* are issued, one for a text within the limit, one per chunk for a longer
\* one (chunks.map runs every translate(chunk) up to its await).  A value
\* that is no string has no length to compare or no match method: the
\* invocation rejects with a TypeError and issues nothing.  Promise.all of
\* no promise at all resolves at once, to the join of nothing.
translateText(v, targetLangCode) ==
  IF v.type # "string"
  THEN [arg |-> v, target |-> targetLangCode, calls |-> <<>>,
        outcome |-> Rejected(TypeErr)]
  ELSE IF Length(v.str) <= MAX_TRANSLATE_CHUNK
       THEN [arg |-> v, target |-> targetLangCode,
             calls |-> IssueCalls(<<v.str>>), outcome |-> Pending]
       ELSE LET cs == chunkText(v.str, MAX_TRANSLATE_CHUNK) IN
            [arg |-> v, target |-> targetLangCode, calls |-> IssueCalls(cs),
             outcome |-> IF cs = <<>> THEN Resolved(Join(<<>>)) ELSE Pending]

\* the translations of the calls of an invocation, in the order of the calls
Translations(calls) == [i \in 1..Len(calls) |-> calls[i].value]

\* Settle waiting for every call and joining the translations of those that
\* succeeded
SettleAllowingPartial(inv, k, answer) ==
  LET r == translate(answer)
      calls2 == [inv.calls EXCEPT
                   ![k] = [content |-> @.content,
                           state |-> IF r.kind = "resolved" THEN "ok"
                                     ELSE "failed",
                           value |-> r.value]]
      oks == SelectSeq(calls2, LAMBDA c : c.state = "ok")
  IN  [arg |-> inv.arg, target |-> inv.target, calls |-> calls2,
       outcome |->
         IF inv.outcome.kind # "pending" THEN inv.outcome
         ELSE IF \E i \in 1..Len(calls2) : calls2[i].state = "pending"
              THEN inv.outcome
         ELSE IF oks = <<>> THEN r
         ELSE Resolved(Join(Translations(oks)))]

\* Settle joining the translations in the order in which the calls complete
SettleInCompletionOrder(inv, k, answer) ==
  LET r == translate(answer)
      calls2 == [inv.calls EXCEPT
                   ![k] = [content |-> @.content,
                           state |-> IF r.kind = "resolved" THEN "ok"
                                     ELSE "failed",
                           value |-> r.value]]
      soFar == IF inv.outcome.value = <<>> THEN r.value
               ELSE Join(<<inv.outcome.value, r.value>>)
  IN  [arg |-> inv.arg, target |-> inv.target, calls |-> calls2,
       outcome |->
         IF inv.outcome.kind # "pending" THEN inv.outcome
         ELSE IF r.kind = "rejected" THEN r
         ELSE IF \A i \in 1..Len(calls2) : calls2[i].state = "ok"
              THEN Resolved(soFar)
              ELSE [kind |-> "pending", value |-> soFar, thrown |-> NoThrown]]

\* Settle letting a later settlement replace an outcome already produced
SettleOverwriting(inv, k, answer) ==
  LET r == translate(answer)
      calls2 == [inv.calls EXCEPT
                   ![k] = [content |-> @.content,
                           state |-> IF r.kind = "resolved" THEN "ok"
                                     ELSE "failed",
                           value |-> r.value]]
  IN  [arg |-> inv.arg, target |-> inv.target, calls |-> calls2,
       outcome |->
         IF r.kind = "rejected" THEN r
         ELSE IF \A i \in 1..Len(calls2) : calls2[i].state = "ok"
              THEN IF Length(inv.arg.str) <= MAX_TRANSLATE_CHUNK
                   THEN Resolved(r.value)
                   ELSE Resolved(Join(Translations(calls2)))
              ELSE inv.outcome]

\* the k-th remote call of an invocation settles: translate(chunk) resolves
\* or rejects, and with it the promise translateText returned, which is
\* translate(text) itself for a text within the limit and Promise.all(...)
\* followed by join(' ') for a longer one.  Promise.all rejects with the
\* first rejection and resolves once every call has resolved; a promise
\* that is settled stays as it is.
Settle(inv, k, answer) ==
  LET r == translate(answer)
      calls2 == [inv.calls EXCEPT
                   ![k] = [content |-> @.content,
                           state |-> IF r.kind = "resolved" THEN "ok"
                                     ELSE "failed",
                           value |-> r.value]]
  IN  [arg |-> inv.arg, target |-> inv.target, calls |-> calls2,
       outcome |->
         IF inv.outcome.kind # "pending" THEN inv.outcome
         ELSE IF r.kind = "rejected" THEN r
         ELSE IF \A i \in 1..Len(calls2) : calls2[i].state = "ok"
              THEN IF Length(inv.arg.str) <= MAX_TRANSLATE_CHUNK
                   THEN Resolved(r.value)
                   ELSE Resolved(Join(Translations(calls2)))
              ELSE inv.outcome]

(***************************************************************************)
(* The translation adapter on its own: one call of translateText(text)     *)
(***************************************************************************)
TranslateTexts == {t \in Texts : Len(t) <= MaxTranslateRuns}

TranslateInit ==
  /\ text \in TranslateTexts
  /\ maxSize = MAX_TRANSLATE_CHUNK
  /\ chunks = <<>>
  /\ cpc = "call"
  /\ tt = <<>>
  /\ PostIdle
  /\ LegacyIdle
  /\ PageIdle
  /\ PipelineIdle

CallTranslateText ==
  /\ cpc = "call"
  /\ tt' = [id \in {<<0, "text">>} |-> translateText(Str(text), "es")]
  /\ cpc' = "awaiting"
  /\ UNCHANGED <<pageVars, legacyVars, postVars, text, maxSize, chunks, pipeVars>>

\* a remote call that is pending settles
RemoteSettles(id, k, answer) ==
  /\ id \in DOMAIN tt
  /\ k \in 1..Len(tt[id].calls)
  /\ tt[id].calls[k].state = "pending"
  /\ tt' = [tt EXCEPT ![id] = Settle(@, k, answer)]

TranslateSettles ==
  /\ cpc = "awaiting"
  /\ \E k \in 1..Len(tt[<<0, "text">>].calls), answer \in RemoteAnswers :
       RemoteSettles(<<0, "text">>, k, answer)
  /\ UNCHANGED <<pageVars, legacyVars, postVars, text, maxSize, chunks, cpc, pipeVars>>

TranslateNext == CallTranslateText \/ TranslateSettles

TranslateSpec == TranslateInit /\ [][TranslateNext]_vars

(***************************************************************************)
(* The language registry (languages.ts)                                    *)
(***************************************************************************)
SUPPORTED_LANGUAGES ==
  <<[key |-> "spanish", label |-> "Spanish", code |-> "es"],
    [key |-> "french", label |-> "French", code |-> "fr"],
    [key |-> "mandarin", label |-> "Mandarin", code |-> "zh-CN"]>>

\* language keys a caller passes
LanguageKeys == {"spanish", "French", "klingon"}

\* String.prototype.toLowerCase on the keys passed
ToLowerCase(key) == IF key = "French" THEN "french" ELSE key

\* getLanguageCode falling back on the first language for an unknown key
getLanguageCodeWithDefault(key) ==
  LET hits == {i \in 1..Len(SUPPORTED_LANGUAGES) :
                 SUPPORTED_LANGUAGES[i].key = ToLowerCase(key)}
  IN  IF hits = {} THEN SUPPORTED_LANGUAGES[1].code
      ELSE SUPPORTED_LANGUAGES[CHOOSE i \in hits : \A j \in hits : i <= j].code

\* getLanguageCode(key): the code of the first entry with the key lowered,
\* "undefined" when there is none
getLanguageCode(key) ==
  LET hits == {i \in 1..Len(SUPPORTED_LANGUAGES) :
                 SUPPORTED_LANGUAGES[i].key = ToLowerCase(key)}
  IN  IF hits = {} THEN "undefined"
      ELSE SUPPORTED_LANGUAGES[CHOOSE i \in hits : \A j \in hits : i <= j].code

(***************************************************************************)
(* extractTextFromPDF                                                      *)
(***************************************************************************)
\* the text of the uploaded document, and a text of white space only
DocText == <<[ch |-> "a", n |-> 2], [ch |-> ".", n |-> 1]>>
BlankText == <<[ch |-> " ", n |-> 2]>>

\* what reading and parsing the PDF may come to: readFileSync, the import
\* or pdf() throws, or pdf() brings data whose text is undefined or a string
ExtractionOutcomes ==
  [kind : {"throws"}, thrown : LibraryThrows, text : {Undefined}]
    \cup [kind : {"data"}, thrown : {NoThrown},
          text : {Undefined, Str(<<>>), Str(BlankText), Str(DocText)}]

NoTextMessage ==
  "No text could be extracted from this PDF. It may be scanned image-only."

\* extractTextFromPDF testing data.text without trimming it
extractTextFromPDFUntrimmed(o) ==
  IF o.kind = "throws" THEN Rejected(o.thrown)
  ELSE IF ~Truthy(o.text)
       THEN Rejected(Err(NoTextMessage))
       ELSE Resolved(o.text.str)

\* the promise extractTextFromPDF returns
extractTextFromPDF(o) ==
  IF o.kind = "throws" THEN Rejected(o.thrown)
  ELSE IF ~Truthy(o.text) \/ Length(Trim(o.text.str)) = 0
       THEN Rejected(Err(NoTextMessage))
       ELSE Resolved(o.text.str)

(***************************************************************************)
(* generateSummaryAndActions                                               *)
(***************************************************************************)
\* most action items in a plan
MaxItems == 2

ShortSummary == <<[ch |-> "a", n |-> 1], [ch |-> ".", n |-> 1]>>

\* summaries the generative model writes
Summaries == {ShortSummary}

StepText == <<[ch |-> "a", n |-> 1]>>
DescriptionText == <<[ch |-> "a", n |-> 1], [ch |-> " ", n |-> 1],
                     [ch |-> "a", n |-> 1]>>

\* elements of the actionPlan array of the model's answer: a well-formed
\* item, an item without step, and null
Items ==
  {[isObject |-> TRUE, step |-> Str(StepText),
    description |-> Str(DescriptionText), priority |-> "high",
    professionalType |-> "tax_advisor"],
   [isObject |-> TRUE, step |-> Undefined,
    description |-> Str(DescriptionText), priority |-> "low",
    professionalType |-> "null"],
   [isObject |-> FALSE, step |-> Undefined, description |-> Undefined,
    priority |-> "", professionalType |-> ""]}

\* a well-formed item but for its priority, which is none of high, medium
\* and low
UrgentItem ==
  [isObject |-> TRUE, step |-> Str(StepText),
   description |-> Str(DescriptionText), priority |-> "urgent",
   professionalType |-> "null"]

\* the well-formed item of Items
GoodItem ==
  [isObject |-> TRUE, step |-> Str(StepText),
   description |-> Str(DescriptionText), priority |-> "high",
   professionalType |-> "tax_advisor"]

\* the actionPlan arrays of the model's answer: every array over Items up
\* to MaxItems elements, and two arrays with the off-list priority
Plans ==
  UNION {[1..n -> Items] : n \in 0..MaxItems}
    \cup {<<UrgentItem>>, <<UrgentItem, GoodItem>>}

\* what JSON.parse may return: null, or an object whose summary is missing,
\* empty, a number or a string and whose actionPlan is an array or not
ParsedValues ==
  {NoParsed}
    \cup [isObject : {TRUE},
          summary : {Undefined, Str(<<>>), Num} \cup {Str(t) : t \in Summaries},
          planIsArray : {FALSE}, actionPlan : {<<>>}]
    \cup [isObject : {TRUE},
          summary : {Undefined, Num} \cup {Str(t) : t \in Summaries},
          planIsArray : {TRUE}, actionPlan : Plans]

\* what the call of the generative model may come to: generateContent or
\* response.text() throws, the raw text is empty, is no JSON, or parses
GeneratorOutcomes ==
  [kind : {"throws"}, thrown : LibraryThrows, parsed : {NoParsed}]
    \cup [kind : {"empty", "notJSON"}, thrown : {NoThrown}, parsed : {NoParsed}]
    \cup [kind : {"json"}, thrown : {NoThrown}, parsed : ParsedValues]

\* generateSummaryAndActions without its test of the shape of the parsed
\* object
generateSummaryAndActionsUnvalidated(g) ==
  IF g.kind = "throws"
  THEN [kind |-> "rejected", thrown |-> g.thrown, parsed |-> NoParsed]
  ELSE IF g.kind = "empty"
  THEN [kind |-> "rejected", thrown |-> Err("Gemini returned an empty response"),
        parsed |-> NoParsed]
  ELSE IF g.kind = "notJSON"
  THEN [kind |-> "rejected", thrown |-> Err("SyntaxError"), parsed |-> NoParsed]
  ELSE IF ~g.parsed.isObject
  THEN [kind |-> "rejected", thrown |-> TypeErr, parsed |-> NoParsed]
  ELSE [kind |-> "resolved", thrown |-> NoThrown, parsed |-> g.parsed]

\* the promise generateSummaryAndActions returns: kind, thrown, and the
\* parsed object it resolves to
generateSummaryAndActions(g) ==
  IF g.kind = "throws"
  THEN [kind |-> "rejected", thrown |-> g.thrown, parsed |-> NoParsed]
  ELSE IF g.kind = "empty"
  THEN [kind |-> "rejected", thrown |-> Err("Gemini returned an empty response"),
        parsed |-> NoParsed]
  ELSE IF g.kind = "notJSON"
  THEN [kind |-> "rejected", thrown |-> Err("SyntaxError"), parsed |-> NoParsed]
  ELSE IF ~g.parsed.isObject
  THEN [kind |-> "rejected", thrown |-> TypeErr, parsed |-> NoParsed]
  ELSE IF ~Truthy(g.parsed.summary) \/ ~g.parsed.planIsArray
  THEN [kind |-> "rejected",
        thrown |-> Err("Gemini returned an unexpected shape"),
        parsed |-> NoParsed]
  ELSE [kind |-> "resolved", thrown |-> NoThrown, parsed |-> g.parsed]

(***************************************************************************)
(* processPDFDocument                                                      *)
(***************************************************************************)
DefaultMessage == "An unexpected error occurred during processing"

\* new Date().toISOString()
Timestamp == "iso"

\* the catch block of processPDFDocument: error.message of null or of
\* undefined throws out of the handler, and the promise of the run rejects;
\* otherwise the error variant is returned, with the message of the value
\* thrown or, when it has none, the default one
Catch(thrown) ==
  IF thrown.type \in {"null", "undefined"}
  THEN [NoResult EXCEPT !.kind = "threw"]
  ELSE [NoResult EXCEPT
          !.kind = "returned",
          !.error = IF thrown.type = "Error" /\ thrown.message # ""
                    THEN thrown.message ELSE DefaultMessage,
          !.timestamp = Timestamp]

\* the invocations of translateText of step 3: one for the summary, and from
\* translateActionPlan two for every item that is an object
FieldIds(plan) ==
  {<<i, f>> : i \in {j \in 1..Len(plan) : plan[j].isObject},
              f \in {"step", "description"}}

\* IssueTranslations translating the summary a second time
IssueTranslationsSummaryTwice(parsed, langCode) ==
  [id \in {<<0, "summary">>, <<0, "summaryAgain">>}
            \cup FieldIds(parsed.actionPlan) |->
     IF id[1] = 0 THEN translateText(parsed.summary, langCode)
     ELSE IF id[2] = "step"
          THEN translateText(parsed.actionPlan[id[1]].step, langCode)
          ELSE translateText(parsed.actionPlan[id[1]].description, langCode)]

IssueTranslations(parsed, langCode) ==
  [id \in {<<0, "summary">>} \cup FieldIds(parsed.actionPlan) |->
     IF id = <<0, "summary">> THEN translateText(parsed.summary, langCode)
     ELSE IF id[2] = "step"
          THEN translateText(parsed.actionPlan[id[1]].step, langCode)
          ELSE translateText(parsed.actionPlan[id[1]].description, langCode)]

\* the promise of Promise.all([translateText(summary), translateActionPlan
\* (actionPlan)]) given the invocations: it rejects as soon as one of them
\* has rejected or the callback of an item has thrown on a null item, and
\* resolves once all of them have resolved
StepThreeRejected(invs, plan) ==
  \/ \E id \in DOMAIN invs : invs[id].outcome.kind = "rejected"
  \/ \E i \in 1..Len(plan) : ~plan[i].isObject

StepThreeResolved(invs, plan) ==
  /\ \A id \in DOMAIN invs : invs[id].outcome.kind = "resolved"
  /\ \A i \in 1..Len(plan) : plan[i].isObject

\* TranslatedItem built afresh from the fields of ActionItem that are
\* required, the optional professionalType left out
TranslatedItemRebuilt(invs, plan, i) ==
  [isObject |-> TRUE,
   step |-> Str(invs[<<i, "step">>].outcome.value),
   description |-> Str(invs[<<i, "description">>].outcome.value),
   priority |-> plan[i].priority,
   professionalType |-> "undefined"]

\* { ...item, step: translatedStep, description: translatedDesc }
TranslatedItem(invs, plan, i) ==
  [plan[i] EXCEPT !.step = Str(invs[<<i, "step">>].outcome.value),
                  !.description = Str(invs[<<i, "description">>].outcome.value)]

\* Success reporting the language key lowered, as getLanguageCode sees it
SuccessKeyLowered(invs, parsed, language, extracted) ==
  [kind |-> "returned", success |-> TRUE, error |-> "",
   translatedSummary |-> invs[<<0, "summary">>].outcome.value,
   actionPlan |-> [i \in 1..Len(parsed.actionPlan) |->
                     TranslatedItem(invs, parsed.actionPlan, i)],
   targetLanguage |-> ToLowerCase(language),
   summaryLength |-> Length(invs[<<0, "summary">>].outcome.value),
   originalLength |-> Length(extracted),
   timestamp |-> Timestamp]

\* the success variant
Success(invs, parsed, language, extracted) ==
  [kind |-> "returned", success |-> TRUE, error |-> "",
   translatedSummary |-> invs[<<0, "summary">>].outcome.value,
   actionPlan |-> [i \in 1..Len(parsed.actionPlan) |->
                     TranslatedItem(invs, parsed.actionPlan, i)],
   targetLanguage |-> language,
   summaryLength |-> Length(invs[<<0, "summary">>].outcome.value),
   originalLength |-> Length(extracted),
   timestamp |-> Timestamp]

Init ==
  /\ text = <<>>
  /\ maxSize = MAX_TRANSLATE_CHUNK
  /\ chunks = <<>>
  /\ cpc = "idle"
  /\ tt = <<>>
  /\ PostIdle
  /\ LegacyIdle
  /\ PageIdle
  /\ pc = "start"
  /\ targetLanguage \in LanguageKeys
  /\ fullText = <<>>
  /\ llm = NoParsed
  /\ result = NoResult
  /\ extractCalls = 0
  /\ genCalls = 0
  /\ pdf = NoOutcome
  /\ gen = NoOutcome

\* lines 222-229: the language key is resolved; an unknown key throws, a
\* known one lets extractTextFromPDF be called
Start ==
  /\ pc = "start"
  /\ IF getLanguageCode(targetLanguage) \in {"undefined", ""}
     THEN /\ result' = Catch(Err("Unsupported language: " \o targetLanguage))
          /\ pc' = "Failed"
          /\ UNCHANGED extractCalls
     ELSE /\ pc' = "Extracting"
          /\ extractCalls' = extractCalls + 1
          /\ UNCHANGED result
  /\ UNCHANGED <<pageVars, legacyVars, postVars,
               text, maxSize, chunks, cpc, tt, targetLanguage, fullText,
                 llm, genCalls, pdf, gen>>

\* lines 229-233: extraction settles; its text goes to the generator
ExtractionSettles ==
  /\ pc = "Extracting"
  /\ \E o \in ExtractionOutcomes :
       LET p == extractTextFromPDF(o) IN
       /\ pdf' = o
       /\ IF p.kind = "rejected"
          THEN /\ result' = Catch(p.thrown)
               /\ pc' = "Failed"
               /\ UNCHANGED <<fullText, genCalls>>
          ELSE /\ fullText' = p.value
               /\ pc' = "Generating"
               /\ genCalls' = genCalls + 1
               /\ UNCHANGED result
  /\ UNCHANGED <<pageVars, legacyVars, postVars,
               text, maxSize, chunks, cpc, tt, targetLanguage, llm,
                 extractCalls, gen>>

\* the promise of step 3 has settled, or not yet: the run returns the
\* success variant, goes through the catch block, or keeps waiting
AfterStepThree(invs, parsed, thrown) ==
  IF StepThreeRejected(invs, parsed.actionPlan)
  THEN /\ result' = Catch(thrown)
       /\ pc' = "Failed"
  ELSE IF StepThreeResolved(invs, parsed.actionPlan)
  THEN /\ result' = Success(invs, parsed, targetLanguage, fullText)
       /\ pc' = "Done"
  ELSE /\ pc' = "Translating"
       /\ UNCHANGED result

\* lines 233-240: the generator settles; its output is validated and every
\* translation of step 3 is started.  An invocation on a value that is no
\* string, and the callback of a null item, reject at once with a
\* TypeError.
GeneratorSettles ==
  /\ pc = "Generating"
  /\ \E g \in GeneratorOutcomes :
       LET p == generateSummaryAndActions(g) IN
       /\ gen' = g
       /\ IF p.kind = "rejected"
          THEN /\ result' = Catch(p.thrown)
               /\ pc' = "Failed"
               /\ UNCHANGED <<llm, tt>>
          ELSE /\ llm' = p.parsed
               /\ tt' = IssueTranslations(p.parsed,
                                          getLanguageCode(targetLanguage))
               /\ AfterStepThree(tt', p.parsed, TypeErr)
  /\ UNCHANGED <<pageVars, legacyVars, postVars,
               text, maxSize, chunks, cpc, targetLanguage, fullText,
                 extractCalls, genCalls, pdf>>

\* a remote translation call settles.  While the run awaits step 3, the
\* first rejection takes it to the catch block and the last resolution to
\* the success variant; once the run has returned, the calls still pending
\* settle without effect on it.
TranslationSettles ==
  /\ pc \in {"Translating", "Done", "Failed"}
  /\ \E id \in DOMAIN tt, answer \in PipelineAnswers :
       \E k \in 1..Len(tt[id].calls) :
         /\ RemoteSettles(id, k, answer)
         /\ IF pc = "Translating"
            THEN AfterStepThree(tt', llm, tt'[id].outcome.thrown)
            ELSE UNCHANGED <<pc, result>>
  /\ UNCHANGED <<pageVars, legacyVars, postVars,
               text, maxSize, chunks, cpc, targetLanguage, fullText, llm,
                 extractCalls, genCalls, pdf, gen>>

Next == Start \/ ExtractionSettles \/ GeneratorSettles \/ TranslationSettles

Spec == Init /\ [][Next]_vars

\* a run whose awaited operations all settle: extraction, the generator
\* call and every remote translation call issued complete in the end
FairSpec ==
  /\ Spec
  /\ WF_vars(Start)
  /\ WF_vars(ExtractionSettles)
  /\ WF_vars(GeneratorSettles)
  /\ WF_vars(TranslationSettles)

(***************************************************************************)
(* The fan-outs together: a call of translateText on its own, or a run of  *)
(* processPDFDocument                                                      *)
(***************************************************************************)
FanOutInit == TranslateInit \/ Init

FanOutNext == TranslateNext \/ Next

FanOutSpec == FanOutInit /\ [][FanOutNext]_vars

(***************************************************************************)
(* The upload handlers: POST of app/api/translateFile/route.ts and the     *)
(* POST that validates against languages.ts.  The run of                   *)
(* processPDFDocument is taken by what it settles to.                      *)
(***************************************************************************)
\* languages.ts:25
VALID_LANGUAGE_KEYS ==
  {SUPPORTED_LANGUAGES[i].key : i \in 1..Len(SUPPORTED_LANGUAGES)}

\* languages.ts:28
MAX_FILE_SIZE_BYTES == 10 * 1024 * 1024

\* route.ts:33, the keys written into the older handler
RouteLanguages == {"spanish", "french", "mandarin"}

Handlers == {"route.ts", "validating"}

FileNames == {"a.pdf", "A.PDF", "a.txt"}

FileTypes == {"application/pdf", "text/plain"}

FileSizes == {0, 1, MAX_FILE_SIZE_BYTES, MAX_FILE_SIZE_BYTES + 1}

\* formData.get('file'): null, a string field, or a File
FormFiles ==
  {[kind |-> "absent", name |-> "", type |-> "", size |-> 0],
   [kind |-> "string", name |-> "", type |-> "", size |-> 0]}
  \cup [kind : {"File"}, name : FileNames, type : FileTypes, size : FileSizes]

\* formData.get('language'): null or a string
FormLanguages ==
  {[present |-> FALSE, value |-> ""]}
  \cup [present : {TRUE}, value : LanguageKeys]

Requests == [file : FormFiles, language : FormLanguages]

\* name.toLowerCase().endsWith('.pdf')
EndsWithPdf(name) == name \in {"a.pdf", "A.PDF"}

\* what processPDFDocument settles to: a variant of its result, or a throw
ProcessOutcomes ==
  {[kind |-> "returned", success |-> TRUE],
   [kind |-> "returned", success |-> FALSE],
   [kind |-> "threw", success |-> FALSE]}

\* route.ts lines 26-46: "400", "pass", or "throw" when file.name is read
\* off a string field
RouteValidation(req) ==
  IF req.file.kind = "absent" THEN "400"
  ELSE IF \/ ~req.language.present
          \/ ToLowerCase(req.language.value) \notin RouteLanguages
       THEN "400"
  ELSE IF req.file.kind = "string" THEN "throw"
  ELSE IF ~EndsWithPdf(req.file.name) THEN "400"
  ELSE "pass"

\* the validating handler, lines 30-68
Validation(req) ==
  IF req.file.kind # "File" THEN "400"
  ELSE IF \/ ~req.language.present
          \/ ToLowerCase(req.language.value) \notin VALID_LANGUAGE_KEYS
       THEN "400"
  ELSE IF ~(EndsWithPdf(req.file.name) \/ req.file.type = "application/pdf")
       THEN "400"
  ELSE IF req.file.size > MAX_FILE_SIZE_BYTES THEN "400"
  ELSE IF req.file.size = 0 THEN "400"
  ELSE "pass"

PostInit ==
  /\ text = <<>>
  /\ maxSize = MAX_TRANSLATE_CHUNK
  /\ chunks = <<>>
  /\ cpc = "idle"
  /\ tt = <<>>
  /\ PipelineIdle
  /\ LegacyIdle
  /\ PageIdle
  /\ handler \in Handlers
  /\ request \in Requests
  /\ hpc = "received"
  /\ tempFilePath = "null"
  /\ tempFile = FALSE
  /\ processCalls = 0
  /\ processResult = NoProcess
  /\ response = NoResponse
  /\ unlinks = NoUnlinks

\* CatchBlock answering 500 without unlinking the temp file
CatchBlockNoCleanup(pathSet, exists) ==
  /\ tempFile' = exists
  /\ UNCHANGED unlinks
  /\ response' = [status |-> 500, success |-> FALSE]
  /\ hpc' = "responded"

\* the catch block: a best-effort unlink when tempFilePath is set, then 500
CatchBlock(pathSet, exists) ==
  /\ IF pathSet
     THEN \E unlinkOk \in BOOLEAN :
            /\ tempFile' = (exists /\ ~unlinkOk)
            /\ unlinks' = [calls |-> unlinks.calls + 1,
                           failed |-> unlinks.failed
                                        + (IF unlinkOk THEN 0 ELSE 1)]
     ELSE /\ tempFile' = exists
          /\ UNCHANGED unlinks
  /\ response' = [status |-> 500, success |-> FALSE]
  /\ hpc' = "responded"

\* lines 89 and 105-120 of the validating handler: the unlink it awaits
\* bare fails, and its catch block runs, calling unlink once more
UnlinkThrows ==
  /\ \E unlinkOk \in BOOLEAN :
       /\ tempFile' = (tempFile /\ ~unlinkOk)
       /\ unlinks' = [calls |-> unlinks.calls + 2,
                      failed |-> unlinks.failed
                                   + (IF unlinkOk THEN 1 ELSE 2)]
  /\ response' = [status |-> 500, success |-> FALSE]
  /\ hpc' = "responded"

\* the response for a result of processPDFDocument
Respond(r) ==
  /\ response' = IF r.success THEN [status |-> 200, success |-> TRUE]
                 ELSE [status |-> 500, success |-> FALSE]
  /\ hpc' = "responded"

\* the form is parsed and validated; a request that passes has its temp path
\* chosen and writeFile issued
Validate ==
  /\ hpc = "received"
  /\ LET v == IF handler = "route.ts" THEN RouteValidation(request)
              ELSE Validation(request)
     IN  CASE v = "400" ->
                /\ response' = [status |-> 400, success |-> FALSE]
                /\ hpc' = "responded"
                /\ UNCHANGED <<tempFilePath, tempFile, unlinks>>
           [] v = "throw" ->
                /\ CatchBlock(FALSE, tempFile)
                /\ UNCHANGED tempFilePath
           [] OTHER ->
                /\ tempFilePath' = "path"
                /\ hpc' = "writing"
                /\ UNCHANGED <<tempFile, response, unlinks>>
  /\ UNCHANGED <<handler, request, processCalls, processResult>>
  /\ UNCHANGED <<text, maxSize, chunks, cpc, tt, pipeVars, legacyVars,
               pageVars>>

\* writeFile settles: written, and processPDFDocument is invoked; or it
\* throws, with or without a file left behind, and the catch block runs
WriteFileSettles ==
  /\ hpc = "writing"
  /\ \/ /\ tempFile' = TRUE
        /\ processCalls' = processCalls + 1
        /\ hpc' = "processing"
        /\ UNCHANGED <<response, unlinks>>
     \/ /\ \E left \in BOOLEAN : CatchBlock(TRUE, left)
        /\ UNCHANGED processCalls
  /\ UNCHANGED <<handler, request, tempFilePath, processResult>>
  /\ UNCHANGED <<text, maxSize, chunks, cpc, tt, pipeVars, legacyVars,
               pageVars>>

\* processPDFDocument settles: a result, and unlink is issued; or a throw,
\* and the catch block runs
ProcessSettles ==
  /\ hpc = "processing"
  /\ \E o \in ProcessOutcomes :
       /\ processResult' = o
       /\ IF o.kind = "threw"
          THEN CatchBlock(TRUE, tempFile)
          ELSE /\ hpc' = "unlinking"
               /\ UNCHANGED <<tempFile, response, unlinks>>
  /\ UNCHANGED <<handler, request, tempFilePath, processCalls>>
  /\ UNCHANGED <<text, maxSize, chunks, cpc, tt, pipeVars, legacyVars,
               pageVars>>

\* unlink settles.  route.ts lines 64-69 swallow a failure; the validating
\* handler, lines 89-90, awaits unlink bare, so a failure reaches its catch
\* block with tempFilePath still set
UnlinkSettles ==
  /\ hpc = "unlinking"
  /\ \E unlinkOk \in BOOLEAN :
       IF unlinkOk
       THEN /\ tempFile' = FALSE
            /\ unlinks' = [unlinks EXCEPT !.calls = @ + 1]
            /\ tempFilePath' = IF handler = "route.ts" THEN tempFilePath
                               ELSE "null"
            /\ Respond(processResult)
       ELSE IF handler = "route.ts"
       THEN /\ unlinks' = [calls |-> unlinks.calls + 1,
                           failed |-> unlinks.failed + 1]
            /\ Respond(processResult)
            /\ UNCHANGED <<tempFile, tempFilePath>>
       ELSE /\ UnlinkThrows
            /\ UNCHANGED tempFilePath
  /\ UNCHANGED <<handler, request, processCalls, processResult>>
  /\ UNCHANGED <<text, maxSize, chunks, cpc, tt, pipeVars, legacyVars,
               pageVars>>

PostNext == Validate \/ WriteFileSettles \/ ProcessSettles \/ UnlinkSettles

PostSpec == PostInit /\ [][PostNext]_vars

(***************************************************************************)
(* The upload page (app/page.tsx): the state of Home and its handlers.     *)
(* The request of handleSubmit is taken by what it settles to.             *)
(***************************************************************************)
\* the files a user may pick or drop
PickedFiles ==
  [kind : {"File"}, name : FileNames, type : FileTypes, size : FileSizes]

\* what the fetch of handleSubmit and the reading of its body come to
FetchOutcomes == {"success", "errorResponse", "unparsable", "networkFailure"}

\* the message handleSubmit's catch block sets for a failed request
FailureMessage(outcome) ==
  IF outcome = "errorResponse" THEN "Server error"
  ELSE IF outcome = "unparsable" THEN "Unexpected token"
  ELSE "Failed to fetch"

\* lines 62-86, the message for a file that is refused, "" for one accepted
FileRefusal(f) ==
  IF ~EndsWithPdf(f.name) /\ f.type # "application/pdf"
  THEN "Only PDF files are supported."
  ELSE IF f.size > MAX_FILE_SIZE_BYTES THEN "File exceeds the 10 MB limit"
  ELSE IF f.size = 0 THEN "The selected file is empty."
  ELSE ""

PageInit ==
  /\ text = <<>>
  /\ maxSize = MAX_TRANSLATE_CHUNK
  /\ chunks = <<>>
  /\ cpc = "idle"
  /\ tt = <<>>
  /\ PipelineIdle
  /\ PostIdle
  /\ LegacyIdle
  /\ PageIdle

\* lines 168-183: a language button is clicked
SelectLanguage ==
  /\ \E i \in 1..Len(SUPPORTED_LANGUAGES) :
       selectedLanguage' = SUPPORTED_LANGUAGES[i].key
  /\ pageResult' = NoPageResult
  /\ pageError' = ""
  /\ UNCHANGED <<pageFile, loading, fetching>>
  /\ UNCHANGED <<text, maxSize, chunks, cpc, tt, pipeVars, postVars,
                 legacyVars>>

\* lines 62-86: a file is picked or dropped; the drop zone is rendered once
\* a language is selected
validateAndSetFile ==
  /\ selectedLanguage # ""
  /\ \E f \in PickedFiles :
       IF FileRefusal(f) # ""
       THEN /\ pageError' = FileRefusal(f)
            /\ pageFile' = NoFile
            /\ UNCHANGED pageResult
       ELSE /\ pageFile' = f
            /\ pageError' = ""
            /\ pageResult' = NoPageResult
  /\ UNCHANGED <<selectedLanguage, loading, fetching>>
  /\ UNCHANGED <<text, maxSize, chunks, cpc, tt, pipeVars, postVars,
                 legacyVars>>

\* lines 111-124: the submit button, rendered with a language and a file and
\* disabled while loading, is clicked; handleSubmit runs up to its fetch
handleSubmit ==
  /\ selectedLanguage # ""
  /\ pageFile # NoFile
  /\ ~loading
  /\ loading' = TRUE
  /\ pageError' = ""
  /\ pageResult' = NoPageResult
  /\ fetching' = [active |-> TRUE, language |-> selectedLanguage]
  /\ UNCHANGED <<selectedLanguage, pageFile>>
  /\ UNCHANGED <<text, maxSize, chunks, cpc, tt, pipeVars, postVars,
                 legacyVars>>

\* lines 124-141: the request settles; the success body carries the
\* language key that was posted
FetchSettles ==
  /\ fetching.active
  /\ \E outcome \in FetchOutcomes :
       IF outcome = "success"
       THEN /\ pageResult' = [success |-> TRUE,
                              targetLanguage |-> fetching.language]
            /\ UNCHANGED pageError
       ELSE /\ pageError' = FailureMessage(outcome)
            /\ UNCHANGED pageResult
  /\ loading' = FALSE
  /\ fetching' = NoFetch
  /\ UNCHANGED <<selectedLanguage, pageFile>>
  /\ UNCHANGED <<text, maxSize, chunks, cpc, tt, pipeVars, postVars,
                 legacyVars>>

PageNext == SelectLanguage \/ validateAndSetFile \/ handleSubmit \/ FetchSettles

PageSpec == PageInit /\ [][PageNext]_vars

\* a request in flight settles in the end
PageFairSpec == PageSpec /\ WF_vars(FetchSettles)

(***************************************************************************)
(* The legacy classifier (translation.js): detectDocumentType.  A text is  *)
(* a sequence of characters here, made of up to MaxWords words.            *)
(***************************************************************************)
MaxWords == 2

Kw_agreement == <<"a", "g", "r", "e", "e", "m", "e", "n", "t">>
Kw_contract == <<"c", "o", "n", "t", "r", "a", "c", "t">>
Kw_report == <<"r", "e", "p", "o", "r", "t">>
Kw_analysis == <<"a", "n", "a", "l", "y", "s", "i", "s">>
Kw_invoice == <<"i", "n", "v", "o", "i", "c", "e">>
Kw_payment == <<"p", "a", "y", "m", "e", "n", "t">>
Kw_proposal == <<"p", "r", "o", "p", "o", "s", "a", "l">>
Kw_recommendation ==
  <<"r", "e", "c", "o", "m", "m", "e",
    "n", "d", "a", "t", "i", "o", "n">>
Kw_policy == <<"p", "o", "l", "i", "c", "y">>
Kw_procedure == <<"p", "r", "o", "c", "e", "d", "u", "r", "e">>
Kw_minutes == <<"m", "i", "n", "u", "t", "e", "s">>
Kw_meeting == <<"m", "e", "e", "t", "i", "n", "g">>
Kw_research == <<"r", "e", "s", "e", "a", "r", "c", "h">>
Kw_study == <<"s", "t", "u", "d", "y">>

Word_Contract == <<"C", "o", "n", "t", "r", "a", "c", "t">>
Word_studying == <<"s", "t", "u", "d", "y", "i", "n", "g">>
Word_the == <<"t", "h", "e">>

\* the words the texts are made of: the keywords as written in the code, a
\* keyword capitalised, a word with a keyword inside it, and a word with none
Vocabulary ==
  {Kw_agreement, Kw_contract, Kw_report, Kw_analysis, Kw_invoice,
   Kw_payment, Kw_proposal, Kw_recommendation, Kw_policy, Kw_procedure,
   Kw_minutes, Kw_meeting, Kw_research, Kw_study,
   Word_Contract, Word_studying, Word_the}

\* words.join(' ') on sequences of characters
RECURSIVE JoinWords(_)
JoinWords(words) ==
  IF words = <<>> THEN <<>>
  ELSE IF Len(words) = 1 THEN words[1]
  ELSE words[1] \o <<" ">> \o JoinWords(Tail(words))

LegacyTexts == {JoinWords(w) : w \in UNION {[1..n -> Vocabulary] : n \in 0..MaxWords}}

\* String.prototype.toLowerCase on the characters of the vocabulary
toLowerCase(s) == [i \in 1..Len(s) |-> IF s[i] = "C" THEN "c" ELSE s[i]]

\* String.prototype.includes
includes(s, k) ==
  \E i \in 0..(Len(s) - Len(k)) : SubSeq(s, i + 1, i + Len(k)) = k

\* detectDocumentType testing invoice and payment before report and analysis
detectDocumentTypeFinancialFirst(t) ==
  LET lowerText == toLowerCase(t)
  IN  IF includes(lowerText, Kw_agreement) \/ includes(lowerText, Kw_contract)
      THEN "legal"
      ELSE IF includes(lowerText, Kw_invoice) \/ includes(lowerText, Kw_payment)
      THEN "financial"
      ELSE IF includes(lowerText, Kw_report) \/ includes(lowerText, Kw_analysis)
      THEN "report"
      ELSE IF includes(lowerText, Kw_proposal) \/ includes(lowerText, Kw_recommendation)
      THEN "proposal"
      ELSE IF includes(lowerText, Kw_policy) \/ includes(lowerText, Kw_procedure)
      THEN "policy"
      ELSE IF includes(lowerText, Kw_minutes) \/ includes(lowerText, Kw_meeting)
      THEN "meeting"
      ELSE IF includes(lowerText, Kw_research) \/ includes(lowerText, Kw_study)
      THEN "research"
      ELSE "general"

\* translation.js lines 137-157
detectDocumentType(t) ==
  LET lowerText == toLowerCase(t)
  IN  IF includes(lowerText, Kw_agreement) \/ includes(lowerText, Kw_contract)
      THEN "legal"
      ELSE IF includes(lowerText, Kw_report) \/ includes(lowerText, Kw_analysis)
      THEN "report"
      ELSE IF includes(lowerText, Kw_invoice) \/ includes(lowerText, Kw_payment)
      THEN "financial"
      ELSE IF includes(lowerText, Kw_proposal) \/ includes(lowerText, Kw_recommendation)
      THEN "proposal"
      ELSE IF includes(lowerText, Kw_policy) \/ includes(lowerText, Kw_procedure)
      THEN "policy"
      ELSE IF includes(lowerText, Kw_minutes) \/ includes(lowerText, Kw_meeting)
      THEN "meeting"
      ELSE IF includes(lowerText, Kw_research) \/ includes(lowerText, Kw_study)
      THEN "research"
      ELSE "general"

ClassifyInit ==
  /\ text = <<>>
  /\ maxSize = MAX_TRANSLATE_CHUNK
  /\ chunks = <<>>
  /\ cpc = "idle"
  /\ tt = <<>>
  /\ PipelineIdle
  /\ PostIdle
  /\ legacyText \in LegacyTexts
  /\ docTypes = <<>>
  /\ PageIdle

\* one call of detectDocumentType(legacyText); the text is called on twice
CallDetectDocumentType ==
  /\ Len(docTypes) < 2
  /\ docTypes' = Append(docTypes, detectDocumentType(legacyText))
  /\ UNCHANGED <<legacyText, text, maxSize, chunks, cpc, tt, pipeVars,
                 postVars, pageVars>>

ClassifyNext == CallDetectDocumentType

ClassifySpec == ClassifyInit /\ [][ClassifyNext]_vars

(***************************************************************************)
(* Properties of chunkText                                                 *)
(***************************************************************************)
\* the sentence tokens of the text longer than maxSize
LongTokens ==
  {Sentences(text)[i] : i \in {j \in 1..Len(Sentences(text)) :
                                  Length(Sentences(text)[j]) > maxSize}}

\* C9: a chunk returned by chunkText is longer than maxSize only when it is
\* cut from a sentence token that is itself longer than maxSize (the token
\* whole, or what is left of it behind its first maxSize characters); so a
\* text without such a token yields chunks within the bound only.
ChunkWithinBoundUnlessLongToken ==
  cpc = "done" =>
    \A i \in 1..Len(chunks) :
      Length(chunks[i]) > maxSize =>
        \E tok \in LongTokens :
          chunks[i] \in {Trim(tok), Trim(Drop(tok, maxSize))}

\* C9's case: several chunks came back, one of them over the bound
OversizedChunkReturned ==
  /\ cpc = "done"
  /\ Len(chunks) >= 2
  /\ \E i \in 1..Len(chunks) : Length(chunks[i]) > maxSize
  /\ \E i \in 1..Len(chunks) : Length(chunks[i]) <= maxSize

\* the text without its white space
RECURSIVE StripSpace(_)
StripSpace(t) ==
  IF t = <<>> THEN <<>>
  ELSE IF IsSpace(Head(t).ch) THEN StripSpace(Tail(t))
  ELSE Concat(<<Head(t)>>, StripSpace(Tail(t)))

\* C10: the chunks joined with single spaces hold the whole input in its
\* order, nothing dropped: white space apart, the join equals the text.
ChunksReconstructText ==
  cpc = "done" => StripSpace(Join(chunks)) = StripSpace(text)

(***************************************************************************)
(* Properties of translateText                                             *)
(***************************************************************************)
Invoked == cpc = "awaiting"

TheCalls == tt[<<0, "text">>].calls

TheOutcome == tt[<<0, "text">>].outcome

\* C5: translateText fails whenever a remote call it issued rejects or
\* brings no translated text, and what it resolves to is never empty.
TranslateFailsOnBadAnswer ==
  Invoked =>
    /\ (\E k \in 1..Len(TheCalls) : TheCalls[k].state = "failed")
          => TheOutcome.kind = "rejected"
    /\ TheOutcome.kind = "resolved" => Length(TheOutcome.value) > 0

\* C5's case: a call came back empty or rejected, and the invocation failed
BadAnswerSeen ==
  /\ Invoked
  /\ \E k \in 1..Len(TheCalls) : TheCalls[k].state = "failed"
  /\ TheOutcome.thrown = Err("Translation API returned empty result")

\* C6: for a text over the limit, once the call of any chunk has failed the
\* invocation has failed; it resolves only to the join of the translations
\* of all its chunks.
ChunkFailureFailsAll ==
  (Invoked /\ Length(text) > MAX_TRANSLATE_CHUNK) =>
    /\ (\E k \in 1..Len(TheCalls) : TheCalls[k].state = "failed")
          => TheOutcome.kind = "rejected"
    /\ TheOutcome.kind = "resolved" =>
          /\ \A k \in 1..Len(TheCalls) : TheCalls[k].state = "ok"
          /\ TheOutcome.value = Join(Translations(TheCalls))

\* C6's case: of several chunks a later one failed after an earlier one had
\* succeeded, and every call has settled
LaterChunkFailed ==
  /\ Invoked
  /\ Length(text) > MAX_TRANSLATE_CHUNK
  /\ Len(TheCalls) >= 2
  /\ TheCalls[1].state = "ok"
  /\ TheCalls[Len(TheCalls)].state = "failed"
  /\ \A k \in 1..Len(TheCalls) : TheCalls[k].state # "pending"

\* C7: translateText issues one remote call for a text within the limit, and
\* for a longer text one call per chunk of chunkText(text, 25000), each chunk
\* to its own call; no call is added afterwards.
OneCallPerChunk ==
  Invoked =>
    IF Length(text) <= MAX_TRANSLATE_CHUNK
    THEN Len(TheCalls) = 1 /\ TheCalls[1].content = text
    ELSE /\ Len(TheCalls) = Len(chunkText(text, MAX_TRANSLATE_CHUNK))
         /\ \A k \in 1..Len(TheCalls) :
              TheCalls[k].content = chunkText(text, MAX_TRANSLATE_CHUNK)[k]

\* C7's case: a long text went out as several calls, all of them settled
SeveralCallsIssued ==
  /\ Invoked
  /\ Length(text) > MAX_TRANSLATE_CHUNK
  /\ Len(TheCalls) >= 2
  /\ \A k \in 1..Len(TheCalls) : TheCalls[k].state # "pending"

\* C8: every remote translation request carries at most 25,000 characters.
RequestWithinLimit ==
  Invoked =>
    \A k \in 1..Len(TheCalls) :
      Length(TheCalls[k].content) <= MAX_TRANSLATE_CHUNK

(***************************************************************************)
(* Properties of processPDFDocument                                        *)
(***************************************************************************)
RegistryKeys ==
  {SUPPORTED_LANGUAGES[i].key : i \in 1..Len(SUPPORTED_LANGUAGES)}

ErrorVariant ==
  /\ result.kind = "returned"
  /\ ~result.success

SuccessVariant ==
  /\ result.kind = "returned"
  /\ result.success

Returned == pc \in {"Done", "Failed"}

\* C1: no exception crosses the boundary of processPDFDocument: a run that
\* has ended has returned a result object, and an error variant carries a
\* message and a timestamp.
NoExceptionCrossesBoundary ==
  Returned =>
    /\ result.kind = "returned"
    /\ ~result.success => (result.error # "" /\ result.timestamp # "")

\* the translations a success result must be made of
AllTranslated ==
  /\ \A id \in DOMAIN tt :
       /\ tt[id].outcome.kind = "resolved"
       /\ \A k \in 1..Len(tt[id].calls) : tt[id].calls[k].state = "ok"
  /\ <<0, "summary">> \in DOMAIN tt
  /\ result.translatedSummary = tt[<<0, "summary">>].outcome.value
  /\ Len(result.actionPlan) = Len(llm.actionPlan)
  /\ \A i \in 1..Len(result.actionPlan) :
       /\ {<<i, "step">>, <<i, "description">>} \subseteq DOMAIN tt
       /\ result.actionPlan[i].step = Str(tt[<<i, "step">>].outcome.value)
       /\ result.actionPlan[i].description
            = Str(tt[<<i, "description">>].outcome.value)

\* some stage of the run has failed
StageFailed ==
  \/ pc = "Failed"
  \/ \E id \in DOMAIN tt :
       \/ tt[id].outcome.kind = "rejected"
       \/ \E k \in 1..Len(tt[id].calls) : tt[id].calls[k].state = "failed"

\* C2: a run produces the success variant only if the language resolved,
\* extraction brought text, the generator output was validated and every
\* translation succeeded, the result being made of those translations; and
\* a run in which one of them failed produces the error variant.
SuccessOnlyIfEveryStageSucceeded ==
  /\ SuccessVariant =>
       /\ ToLowerCase(targetLanguage) \in RegistryKeys
       /\ Length(Trim(fullText)) > 0
       /\ Truthy(llm.summary) /\ llm.planIsArray
       /\ AllTranslated
  /\ StageFailed => ErrorVariant

\* C3: with a language key outside the registry the run returns the error
\* variant, and extraction, generator and translation are never called.
UnsupportedLanguageMakesNoCall ==
  (ToLowerCase(targetLanguage) \notin RegistryKeys /\ pc # "start") =>
    /\ ErrorVariant
    /\ result.error = "Unsupported language: " \o targetLanguage
    /\ extractCalls = 0
    /\ genCalls = 0
    /\ DOMAIN tt = {}

\* C3's case: the run on "klingon" has returned
KlingonRefused ==
  /\ targetLanguage = "klingon"
  /\ pc = "Failed"
  /\ ErrorVariant

\* the PDF was parsed and its text is missing, empty or white space only
ExtractedNothing ==
  /\ pdf.kind = "data"
  /\ \/ pdf.text.type # "string"
     \/ \A i \in 1..Len(pdf.text.str) : IsSpace(pdf.text.str[i].ch)

\* C4: when extraction yields empty or white-space-only text the run
\* returns success: false with the extraction message, and neither the
\* generator nor the translation adapter is invoked.
EmptyExtractionStopsRun ==
  ExtractedNothing =>
    /\ ErrorVariant
    /\ result.error = NoTextMessage
    /\ genCalls = 0
    /\ DOMAIN tt = {}

\* C4's case: the PDF held white space only, and the run has returned
BlankPdfRefused ==
  /\ pdf.kind = "data"
  /\ pdf.text = Str(BlankText)
  /\ pc = "Failed"

(***************************************************************************)
(* Further properties of chunkText                                         *)
(***************************************************************************)
\* C11: for a text whose length is within maxSize, chunkText returns the
\* one-element list holding the text trimmed.
TextWithinLimitIsOneChunk ==
  (cpc = "done" /\ Length(text) <= maxSize) => chunks = <<Trim(text)>>

\* C20: every sentence token longer than maxSize is hard-split at the size
\* boundary, wherever it stands: its first maxSize characters come back as a
\* chunk.
LongTokenIsHardSplit ==
  cpc = "done" =>
    \A tok \in LongTokens :
      \E i \in 1..Len(chunks) : chunks[i] = Take(tok, maxSize)

(***************************************************************************)
(* Further properties of processPDFDocument                                *)
(***************************************************************************)
\* the answer of the generative model is a non-empty text that parses to an
\* object with a string summary and an array actionPlan
WellShapedAnswer ==
  /\ gen.kind = "json"
  /\ gen.parsed.isObject
  /\ gen.parsed.summary.type = "string"
  /\ gen.parsed.planIsArray

\* C12: generateSummaryAndActions returns its parsed object only for a
\* non-empty answer that parses as JSON and holds a string summary and an
\* array actionPlan; for every other answer it fails and nothing is kept.
GeneratorAcceptsOnlyWellShaped ==
  /\ llm # NoParsed => WellShapedAnswer
  /\ (gen.kind # "none" /\ ~WellShapedAnswer) => (llm = NoParsed /\ DOMAIN tt = {})

\* C13: in a success result originalLength is the length of the text that
\* extraction returned and targetLanguage is the key the caller passed.
SuccessReportsLengthAndLanguage ==
  SuccessVariant =>
    /\ pdf.kind = "data"
    /\ result.originalLength = Length(pdf.text.str)
    /\ result.targetLanguage = targetLanguage

\* C13's case: a run called with the key "French" has succeeded
FrenchRunSucceeded ==
  /\ SuccessVariant
  /\ targetLanguage = "French"
  /\ result.originalLength = Length(DocText)

\* the answer of the generative model passes the tests of lines 183-191
ValidatedAnswer ==
  /\ gen.kind = "json"
  /\ gen.parsed.isObject
  /\ Truthy(gen.parsed.summary)
  /\ gen.parsed.planIsArray

\* C15: the stages come in the order Extracting, Generating, Translating:
\* extraction is called only with the language key resolved, the generator
\* only with non-blank text extracted, translateText only with the generator
\* output validated; so a stage that failed is followed by no later stage.
StagesInOrder ==
  /\ extractCalls >= 1 => ToLowerCase(targetLanguage) \in RegistryKeys
  /\ genCalls >= 1 =>
       /\ extractCalls >= 1
       /\ pdf.kind = "data"
       /\ ~ExtractedNothing
  /\ DOMAIN tt # {} =>
       /\ genCalls >= 1
       /\ ValidatedAnswer
  /\ pc = "Extracting" => (genCalls = 0 /\ DOMAIN tt = {})
  /\ pc = "Generating" => DOMAIN tt = {}

\* C15's case: the run has gone through extraction and generation and awaits
\* its translations
AllStagesStarted ==
  /\ pc = "Translating"
  /\ extractCalls = 1
  /\ genCalls = 1
  /\ Cardinality(DOMAIN tt) >= 3

\* C17: extraction and the generator are invoked at most once in a run, and
\* a successful run with n action items has invoked the generator once and
\* translateText 1 + 2n times.
NoStageRetried ==
  /\ extractCalls <= 1
  /\ genCalls <= 1
  /\ SuccessVariant =>
       /\ extractCalls = 1
       /\ genCalls = 1
       /\ Cardinality(DOMAIN tt) = 1 + 2 * Len(llm.actionPlan)

\* C17's case: a run with two action items has succeeded
TwoItemRunSucceeded ==
  /\ SuccessVariant
  /\ Len(llm.actionPlan) = 2
  /\ Cardinality(DOMAIN tt) = 5

\* C16: when extraction and every remote call issued complete, the run ends
\* in Done or Failed having returned a result, and that result is the only
\* one: it never changes afterwards.
RunEventuallyReturnsOneResult ==
  /\ <>(Returned /\ result.kind = "returned")
  /\ [][result.kind # "none" => result' = result]_vars

(***************************************************************************)
(* Properties of the fan-outs                                              *)
(***************************************************************************)
\* C18: results are merged by position: whatever the order in which its
\* calls complete, a translateText invocation resolves to the translations
\* of its calls joined in the order of the calls, and the i-th item of a
\* success result holds the translations of the step and the description of
\* the i-th generated item.
MergedByPosition ==
  /\ \A id \in DOMAIN tt :
       tt[id].outcome.kind = "resolved" =>
         tt[id].outcome.value = Join(Translations(tt[id].calls))
  /\ SuccessVariant =>
       /\ Len(result.actionPlan) = Len(llm.actionPlan)
       /\ \A i \in 1..Len(llm.actionPlan) :
            /\ tt[<<i, "step">>].arg = llm.actionPlan[i].step
            /\ tt[<<i, "description">>].arg = llm.actionPlan[i].description
            /\ result.actionPlan[i].step = Str(tt[<<i, "step">>].outcome.value)
            /\ result.actionPlan[i].description
                 = Str(tt[<<i, "description">>].outcome.value)

\* C18's case: a text over the limit was translated in two calls that brought
\* different translations
TwoChunksMerged ==
  /\ Invoked
  /\ Length(text) > MAX_TRANSLATE_CHUNK
  /\ TheOutcome.kind = "resolved"
  /\ Len(TheCalls) = 2
  /\ TheCalls[1].value # TheCalls[2].value

\* the invocation id is pending and one of its calls fails in this step
CallFailsNow(id) ==
  /\ tt[id].outcome.kind = "pending"
  /\ \E k \in 1..Len(tt[id].calls) :
       /\ tt[id].calls[k].state = "pending"
       /\ tt'[id].calls[k].state = "failed"

\* C19: in every fan-out the aggregate fails in the very step in which a
\* sub-call fails, pending siblings or not; the siblings stay in flight and
\* settle later; and an outcome once produced, of an invocation or of the
\* run, is never changed by them.
FanOutFailsFastAndStays ==
  [][/\ \A id \in DOMAIN tt :
          /\ id \in DOMAIN tt'
          /\ Len(tt'[id].calls) = Len(tt[id].calls)
          /\ \A k \in 1..Len(tt[id].calls) :
               tt[id].calls[k].state # "pending"
                 => tt'[id].calls[k] = tt[id].calls[k]
          /\ tt[id].outcome.kind # "pending" => tt'[id].outcome = tt[id].outcome
          /\ CallFailsNow(id) => tt'[id].outcome.kind = "rejected"
          /\ (CallFailsNow(id) /\ pc = "Translating") => pc' = "Failed"
     /\ pc \in {"Done", "Failed"} => (pc' = pc /\ result' = result)]_vars

\* C19's case: the run failed at once on a summary that is no string, and
\* the calls for the fields of its items, issued in the same step, have all
\* settled since, one of them with a translation
SiblingsSettledAfterFailure ==
  /\ pc = "Failed"
  /\ llm.summary = Num
  /\ Cardinality(DOMAIN tt) >= 3
  /\ \A id \in DOMAIN tt :
       \A k \in 1..Len(tt[id].calls) : tt[id].calls[k].state # "pending"
  /\ \E id \in DOMAIN tt : tt[id].outcome.kind = "resolved"

(***************************************************************************)
(* Properties of the upload handlers                                       *)
(***************************************************************************)
\* the five boundary checks on the request
PassesBoundaryChecks ==
  /\ request.file.kind = "File"
  /\ request.language.present
  /\ ToLowerCase(request.language.value) \in RegistryKeys
  /\ EndsWithPdf(request.file.name) \/ request.file.type = "application/pdf"
  /\ request.file.size > 0
  /\ request.file.size <= 10 * 1024 * 1024

\* C14: in every upload handler processPDFDocument is invoked only for a
\* request that passed all boundary checks: a file is present, the language
\* key is supported, the file is a PDF, it is not empty and it is at most
\* 10 MB.
PipelineOnlyAfterBoundaryChecks ==
  processCalls > 0 => PassesBoundaryChecks

(***************************************************************************)
(* Further properties of chunkText                                         *)
(***************************************************************************)
\* C21: for every text and every maxSize of 1 at least, no chunk returned by
\* chunkText is the empty string.
NoEmptyChunk ==
  (cpc = "done" /\ maxSize >= 1) =>
    \A i \in 1..Len(chunks) : Length(chunks[i]) > 0

\* C21's case: a text that ends in white space behind a token hard-split at
\* the size boundary, so that the buffer left at the end trims to nothing
BlankRemainderDropped ==
  /\ cpc = "done"
  /\ maxSize >= 1
  /\ Len(chunks) >= 1
  /\ Match(text) = <<>>
  /\ Length(text) > maxSize
  /\ Trim(Drop(text, maxSize)) = <<>>
  /\ Drop(text, maxSize) # <<>>

\* the sentence tokens one after the other, as the loop meets them
RECURSIVE ConcatAll(_)
ConcatAll(parts) ==
  IF parts = <<>> THEN <<>> ELSE Concat(Head(parts), ConcatAll(Tail(parts)))

\* where the i-th of the tokens starts and ends in the token stream
TokenStart(tokens, i) == Length(ConcatAll(SubSeq(tokens, 1, i - 1)))

TokenEnd(tokens, i) == Length(ConcatAll(SubSeq(tokens, 1, i)))

\* the places where the stream may be cut without splitting a token of
\* length max at most: between two tokens, and max characters into a token
\* longer than max
SafeCuts(tokens, max) ==
  ({TokenEnd(tokens, i) : i \in 1..Len(tokens)}
   \cup {TokenStart(tokens, i) + max :
           i \in {j \in 1..Len(tokens) : Length(tokens[j]) > max}})
  \ {0, Length(ConcatAll(tokens))}

\* s from position from on, cut at the positions cuts
RECURSIVE CutAt(_, _, _)
CutAt(s, cuts, from) ==
  IF cuts = {} THEN <<Drop(s, from)>>
  ELSE LET m == CHOOSE c \in cuts : \A d \in cuts : c <= d
       IN  <<Take(Drop(s, from), m - from)>> \o CutAt(s, cuts \ {m}, m)

\* the pieces trimmed, those of white space only left out
RECURSIVE NonBlankTrimmed(_)
NonBlankTrimmed(pieces) ==
  IF pieces = <<>> THEN <<>>
  ELSE IF Trim(Head(pieces)) = <<>> THEN NonBlankTrimmed(Tail(pieces))
  ELSE <<Trim(Head(pieces))>> \o NonBlankTrimmed(Tail(pieces))

\* C22: chunkText splits no sentence token of length maxSize at most: the
\* chunks are the token stream cut at safe places only, so every such token
\* lies whole inside one chunk (white space at the ends of a chunk apart).
NoShortTokenSplit ==
  (cpc = "done" /\ maxSize >= 1) =>
    LET tokens == Sentences(text)
        stream == ConcatAll(tokens)
        safe == SafeCuts(tokens, maxSize)
        returned == NonBlankTrimmed(chunks)
    IN  \E cuts \in SUBSET safe :
          returned = NonBlankTrimmed(CutAt(stream, cuts, 0))

\* C22's case: a text with a token over maxSize, which is split, and a token
\* within maxSize, which is not
ShortTokenBesideSplitOne ==
  /\ cpc = "done"
  /\ maxSize >= 1
  /\ LongTokens # {}
  /\ \E i \in 1..Len(Sentences(text)) :
       /\ Length(Sentences(text)[i]) <= maxSize
       /\ Length(Sentences(text)[i]) >= 2
  /\ Len(chunks) >= 3

(***************************************************************************)
(* Properties of the action plan                                           *)
(***************************************************************************)
\* C23: the action plan of a success result has the items of the generated
\* plan, as many and in their order, each with its priority and its
\* professionalType as generated: only step and description are replaced.
OnlyStepAndDescriptionChange ==
  SuccessVariant =>
    /\ Len(result.actionPlan) = Len(llm.actionPlan)
    /\ \A i \in 1..Len(llm.actionPlan) :
         /\ result.actionPlan[i].isObject = llm.actionPlan[i].isObject
         /\ result.actionPlan[i].priority = llm.actionPlan[i].priority
         /\ result.actionPlan[i].professionalType
              = llm.actionPlan[i].professionalType

\* C23's case: a success whose plan has two items that differ in priority and
\* in professionalType, both with step and description replaced
TwoDifferentItemsTranslated ==
  /\ SuccessVariant
  /\ Len(result.actionPlan) = 2
  /\ result.actionPlan[1].priority # result.actionPlan[2].priority
  /\ result.actionPlan[1].professionalType
       # result.actionPlan[2].professionalType
  /\ \A i \in 1..2 : result.actionPlan[i].step # llm.actionPlan[i].step

\* C24: every item of the action plan of a success result has a string step,
\* a string description and a priority among high, medium and low, whatever
\* the generative model answered.
SuccessItemsWellTyped ==
  SuccessVariant =>
    \A i \in 1..Len(result.actionPlan) :
      /\ result.actionPlan[i].step.type = "string"
      /\ result.actionPlan[i].description.type = "string"
      /\ result.actionPlan[i].priority \in {"high", "medium", "low"}

(***************************************************************************)
(* Properties of the legacy classifier                                     *)
(***************************************************************************)
\* the templates in the order of their keyword pairs
KeywordPairs ==
  <<[type |-> "legal", keywords |-> {Kw_agreement, Kw_contract}],
    [type |-> "report", keywords |-> {Kw_report, Kw_analysis}],
    [type |-> "financial", keywords |-> {Kw_invoice, Kw_payment}],
    [type |-> "proposal", keywords |-> {Kw_proposal, Kw_recommendation}],
    [type |-> "policy", keywords |-> {Kw_policy, Kw_procedure}],
    [type |-> "meeting", keywords |-> {Kw_minutes, Kw_meeting}],
    [type |-> "research", keywords |-> {Kw_research, Kw_study}]>>

\* the pairs of which a keyword occurs in the text, letter case apart
PairsOccurring ==
  {i \in 1..Len(KeywordPairs) :
     \E k \in KeywordPairs[i].keywords : includes(toLowerCase(legacyText), k)}

\* C25: detectDocumentType returns, on every text and on every call, the
\* template of the first keyword pair of which a keyword occurs in the text,
\* in the order legal, report, financial, proposal, policy, meeting,
\* research, and general exactly when no keyword occurs; two calls on one
\* text return the same template.
ClassifiedByFirstMatch ==
  /\ \A c \in 1..Len(docTypes) :
       /\ docTypes[c] \in {"legal", "report", "financial", "proposal",
                           "policy", "meeting", "research", "general"}
       /\ (docTypes[c] = "general") = (PairsOccurring = {})
       /\ PairsOccurring # {} =>
            docTypes[c] = KeywordPairs[CHOOSE i \in PairsOccurring :
                                         \A j \in PairsOccurring : i <= j].type
  /\ Len(docTypes) = 2 => docTypes[1] = docTypes[2]

\* C25's case: a text with both invoice and a capitalised Contract, classified
\* twice, and legal both times
ContractAndInvoiceIsLegal ==
  /\ includes(legacyText, Kw_invoice)
  /\ includes(legacyText, Word_Contract)
  /\ docTypes = <<"legal", "legal">>

\* what the handler's validation made of the request
ValidationOutcome ==
  IF handler = "route.ts" THEN RouteValidation(request)
  ELSE Validation(request)

\* C26 as stated: when the handler returns its response the temp file it
\* wrote is gone, on every path, and a request rejected by validation had no
\* temp file written.
TempFileGoneAtResponse ==
  hpc = "responded" =>
    /\ ~tempFile
    /\ ValidationOutcome = "400" => (tempFilePath = "null" /\ unlinks.calls = 0)

\* C26 amended: when the handler returns its response it has called unlink
\* on the temp file it wrote, on every path, and the file is gone unless a
\* call of unlink failed; a request rejected by validation had no temp file
\* written.
TempFileUnlinkedUnlessUnlinkFails ==
  hpc = "responded" =>
    /\ tempFile => unlinks.failed >= 1
    /\ processCalls > 0 => unlinks.calls >= 1
    /\ ValidationOutcome = "400" => (tempFilePath = "null" /\ unlinks.calls = 0)

\* C26's case: processPDFDocument threw with the temp file on disk, and the
\* handler answered with the file removed by its catch block
CleanedUpAfterThrow ==
  /\ hpc = "responded"
  /\ processResult.kind = "threw"
  /\ ~tempFile
  /\ unlinks = [calls |-> 1, failed |-> 0]

\* C27: the handler answers 400 exactly when a validation check rejects the
\* request, 500 with success false when processPDFDocument returned the
\* error variant or threw, and 200 with the success body whenever it
\* returned the success variant.
StatusFollowsOutcome ==
  hpc = "responded" =>
    /\ (response.status = 400) = (ValidationOutcome = "400")
    /\ (processResult.kind = "returned" /\ processResult.success)
         => response = [status |-> 200, success |-> TRUE]
    /\ (processResult.kind = "threw"
          \/ (processResult.kind = "returned" /\ ~processResult.success))
         => response = [status |-> 500, success |-> FALSE]

(***************************************************************************)
(* Properties of the upload page                                           *)
(***************************************************************************)
\* C28: a result the page holds belongs to the language selected: result is
\* null or result.targetLanguage is selectedLanguage.
ResultIsOfSelectedLanguage ==
  pageResult = NoPageResult \/ pageResult.targetLanguage = selectedLanguage

\* C29: the error banner and a result are never shown together: error is
\* the empty string or result is null.
ErrorAndResultExclusive ==
  pageError = "" \/ pageResult = NoPageResult

\* C30: a submit that set loading is followed in the end by loading being
\* false; when the request settles loading falls and exactly one of result
\* and error is set; and loading never stays on with no request in flight.
LoadingEndsWithOneOutcome ==
  /\ loading ~> ~loading
  /\ [][(loading /\ ~loading') =>
          ((pageResult' # NoPageResult) # (pageError' # ""))]_vars
  /\ [](loading => fetching.active)

====
